---- MODULE Spec2Model ----
(***************************************************************************)
(* The LifeNest insurance back end: the Express servers of src/index.js    *)
(* and of src/README.md (lines 49-1064, the "full" server with roles).     *)
(*                                                                         *)
(* A request is received, runs through the middleware its route declares   *)
(* (verifyJWT / verifyToken, then verifyAdmin / verifyAgent) and then      *)
(* through the route handler.  Every action performs the synchronous code  *)
(* up to and including one awaited external call (identity verifier or one *)
(* document-store operation), which is where Node can interleave requests. *)
(*                                                                         *)
(* A timestamp is the value "date".  Not modelled: request-body fields     *)
(* other than the ones named in Inputs, rejectedAt, paid_at, CORS.         *)
(***************************************************************************)
EXTENDS Integers, Sequences, FiniteSets, TLC

(***************************************************************************)
(* Bounds                                                                  *)
(***************************************************************************)
\* number of applications insertOne may create in one behaviour
MaxApps == 1

\* number of documents the users collection of the first server may hold
MaxUsers == 3

\* number of payments insertOne may create in one behaviour
MaxPayments == 1

\* number of blogs insertOne may create in one behaviour
MaxBlogs == 2

(***************************************************************************)
(* Values                                                                  *)
(***************************************************************************)
\* JavaScript undefined (a missing header piece, body field or token claim)
Undefined == "undefined"

Emails == {"jane", "bob"}

\* A header value is a sequence of chunks: a chunk is either one space or a
\* run of characters without a space.  <<>> is the absent header.
SP == " "
NoHeader == <<>>

Headers ==
  { NoHeader,
    <<"Bearer", SP, "tJane">>,
    <<"Bearer", SP, "tBob">>,
    <<"Bearer", SP, "tBobAdmin">>,
    <<"Bearer", SP, "tBad">>,
    <<"Basic", SP, "tBob">>,
    <<"tBob">> }

\* String.prototype.split(" "): the pieces between the spaces
RECURSIVE SplitSp(_)
SplitSp(h) ==
  IF h = <<>> THEN << <<>> >>
  ELSE LET rest == SplitSp(Tail(h)) IN
       IF Head(h) = SP
         THEN << <<>> >> \o rest
         ELSE << (<<Head(h)>> \o rest[1]) >> \o Tail(rest)

\* authHeader.split(" ")[1]
SecondPiece(h) ==
  IF Len(SplitSp(h)) >= 2 THEN SplitSp(h)[2] ELSE <<Undefined>>

\* a test of the header that lets every header through
StartsWithBearerAlways(h) == TRUE

\* authHeader?.startsWith("Bearer ")
StartsWithBearer(h) == Len(h) >= 2 /\ h[1] = "Bearer" /\ h[2] = SP

\* !authHeader is false (verifyJWT's only test of the header)
HeaderPresent(h) == h # NoHeader

\* admin.auth().verifyIdToken(token): the identity provider's answer.
\* tJane and tBob are ID tokens of the two principals, tBobAdmin is an ID
\* token of bob that carries a custom claim role = "admin"; anything else
\* (tBad, the empty string, undefined, a concatenation) is rejected.
NoUser == [ok |-> FALSE, email |-> Undefined, role |-> Undefined]

VerifyIdToken(tok) ==
  IF tok = <<"tJane">> THEN [ok |-> TRUE, email |-> "jane", role |-> Undefined]
  ELSE IF tok = <<"tBob">> THEN [ok |-> TRUE, email |-> "bob", role |-> Undefined]
  ELSE IF tok = <<"tBobAdmin">> THEN [ok |-> TRUE, email |-> "bob", role |-> "admin"]
  ELSE NoUser

\* status of verifyJWT's catch branch
JWTRejectStatus == 403

\* new ObjectId(req.params.id): a path id is 0 (a string that is no
\* ObjectId; the constructor throws) or n > 0 (the hex string of ObjectId n)
PathIds == 0 .. MaxApps

ObjectIdThrows(id) == id <= 0

(***************************************************************************)
(* Documents                                                               *)
(***************************************************************************)
NoUserDoc == [email |-> Undefined, name |-> Undefined, role |-> Undefined]

NoApp == [_id |-> 0, userEmail |-> Undefined, email |-> Undefined,
          status |-> Undefined, assignedAgent |-> Undefined,
          applicationDate |-> Undefined]

NoAgent == [_id |-> 0, email |-> Undefined, status |-> Undefined,
            requestedBy |-> Undefined]

\* the least member of a non-empty set of positions, 0 for the empty set
FirstOf(S) == IF S = {} THEN 0 ELSE CHOOSE i \in S : \A j \in S : i <= j

\* position of the first document a filter { _id: id } matches, 0 if none
IdxById(coll, id) == FirstOf({i \in 1 .. Len(coll) : coll[i]._id = id})

\* position of the first document a filter { email } matches, 0 if none
IdxByEmail(coll, email) == FirstOf({i \in 1 .. Len(coll) : coll[i].email = email})

\* applications.findOne({ _id: new ObjectId(id) }), NoApp for null
FindById(coll, id) ==
  IF IdxById(coll, id) = 0 THEN NoApp ELSE coll[IdxById(coll, id)]

\* collection.deleteOne: the collection without its document at position i
RemoveAt(coll, i) ==
  IF i = 0 THEN coll
  ELSE SubSeq(coll, 1, i - 1) \o SubSeq(coll, i + 1, Len(coll))

(***************************************************************************)
(* Routes                                                                  *)
(***************************************************************************)
\* the middleware each app.<method>(path, ...) registration declares
Guards(route) ==
  CASE route = "POST /users" -> <<>>
    [] route = "GET /all" -> <<"verifyJWT">>
    [] route = "PATCH /assign/:id" -> <<"verifyJWT">>
    [] route = "PATCH /applications/reject/:id" -> <<"verifyToken", "verifyAdmin">>
    [] route = "POST /applications" -> <<"verifyToken">>
    [] route = "PATCH /applications/:id/status" -> <<"verifyToken", "verifyAgent">>
    [] route = "GET /applications" -> <<"verifyToken">>
    [] route = "GET /applications/all" -> <<"verifyToken", "verifyAdmin">>
    [] route = "GET /applications/:id" -> <<"verifyToken">>
    [] route = "DELETE /applications/:id" -> <<"verifyToken">>
    [] route = "PATCH /users/:email" -> <<"verifyToken">>
    [] route = "PUT /make-admin" -> <<>>
    [] route = "POST /agents" -> <<"verifyToken">>
    [] route = "PATCH /agents/:id/status" -> <<>>
    [] route = "POST /subscribe" -> <<>>
    [] route = "index.js POST /applications" -> <<"verifyToken">>
    [] route = "index.js GET /applications/:id" -> <<"verifyToken">>
    [] route = "index.js DELETE /applications/:id" -> <<"verifyToken">>
    [] route = "PATCH /applications/assign/:id" -> <<>>
    [] route = "POST /blogs" -> <<"verifyToken", "verifyAgent">>
    [] route = "GET /blogs" -> <<"verifyToken">>
    [] route = "GET /blogs/:id" -> <<"verifyToken">>
    [] route = "GET /blogs/latest" -> <<>>
    [] route = "index.js POST /payments" -> <<"verifyToken">>
    [] route = "index.js POST /create-payment-intent" -> <<"verifyToken">>
    [] route = "part_001 POST /users" -> <<>>
    [] OTHER -> <<>>

\* the routes of the full server (src/README.md) that are modelled
FullRoutes ==
  { "POST /users", "GET /all", "PATCH /assign/:id",
    "PATCH /applications/reject/:id", "POST /applications",
    "PATCH /applications/:id/status", "GET /applications",
    "GET /applications/all", "GET /applications/:id",
    "DELETE /applications/:id" }

\* the agent-request and newsletter routes of the full server
SignupRoutes == {"POST /agents", "PATCH /agents/:id/status", "POST /subscribe"}

\* the profile routes of the full server
ProfileRoutes == {"POST /users", "PATCH /users/:email", "PUT /make-admin"}

\* the route of the first server (src/unnamed/part_001) that is modelled
OldRoutes == {"part_001 POST /users"}

\* the routes used to follow a principal through a sequence of requests
SessionRoutes ==
  {"POST /users", "POST /applications", "GET /applications/all", "GET /all"}

\* the routes of src/index.js that are modelled
IndexRoutes ==
  { "index.js POST /applications", "index.js GET /applications/:id",
    "index.js DELETE /applications/:id", "index.js POST /payments",
    "index.js POST /create-payment-intent" }

\* the registrations under /blogs, in the order of the app.<method> calls
BlogRegistrations ==
  << [pattern |-> <<"POST", "blogs">>, route |-> "POST /blogs"],
     [pattern |-> <<"GET", "blogs">>, route |-> "GET /blogs"],
     [pattern |-> <<"GET", "blogs", ":id">>, route |-> "GET /blogs/:id"],
     [pattern |-> <<"GET", "blogs", "latest">>, route |-> "GET /blogs/latest"] >>

\* Express matches a path against a pattern segment by segment; a segment
\* that starts with a colon is a parameter and matches every string
Matches(pattern, path) ==
  /\ Len(pattern) = Len(path)
  /\ \A i \in 1 .. Len(pattern) : pattern[i] = ":id" \/ pattern[i] = path[i]

\* the router runs the first registration that matches
Dispatch(path) ==
  LET hits == {i \in 1 .. Len(BlogRegistrations) :
                 Matches(BlogRegistrations[i].pattern, path)}
  IN IF hits = {} THEN "none" ELSE BlogRegistrations[FirstOf(hits)].route

\* the path segment that is the hex string of ObjectId i
IdSegments == <<"000000000000000000000001", "000000000000000000000002",
                "000000000000000000000003">>

\* req.params.id of a path as a document id: 0 for a string that is no
\* ObjectId (new ObjectId throws on it)
ParamId(path) ==
  IF Len(path) < 3 THEN 0
  ELSE FirstOf({i \in 1 .. Len(IdSegments) : IdSegments[i] = path[3]})

\* the function Express runs at position i of a route's chain
StageAt(route, i) ==
  IF i <= Len(Guards(route)) THEN Guards(route)[i] ELSE "handler"

(***************************************************************************)
(* State                                                                   *)
(***************************************************************************)
VARIABLES
  users,         \* the users collection, in natural (insertion) order
  applications,  \* the applications collection, in natural order
  nextId,        \* the next ObjectId insertOne generates
  creator,       \* history: creator[i] is the principal that created application i
  submitted,     \* history: submitted[i] is the request body application i came from
  agents,        \* the agents collection (agent requests), in natural order
  newsletterSubscribers,  \* the newsletterSubscribers collection
  expired,       \* the ID tokens the identity provider no longer accepts
  payments,      \* the payments collection, in natural order
  blogs,         \* the blogs collection, in natural order
  reqs           \* the requests being served, one per connection slot

vars == <<users, applications, nextId, creator, submitted, agents,
          newsletterSubscribers, expired, payments, blogs, reqs>>

\* what the handlers of users and applications never touch
rest == <<agents, newsletterSubscribers, expired, payments, blogs>>

Idle ==
  [route |-> "none", hdr |-> NoHeader, id |-> 0, email |-> Undefined,
   name |-> Undefined, role |-> Undefined, status |-> Undefined,
   amount |-> 0, pc |-> "idle", gi |-> 0, user |-> NoUser, lookup |-> "none",
   found |-> NoApp, resp |-> 0, trace |-> <<>>,
   pre |-> [users |-> <<>>, applications |-> <<>>, agents |-> <<>>,
            newsletterSubscribers |-> <<>>, payments |-> <<>>],
   path |-> <<>>, body |-> "none", list |-> <<>>]

Init ==
  /\ users = <<>>
  /\ applications = <<>>
  /\ nextId = 1
  /\ creator = <<>>
  /\ submitted = <<>>
  /\ agents = <<>>
  /\ newsletterSubscribers = <<>>
  /\ payments = <<>>
  /\ blogs = <<>>
  /\ expired = {}
  /\ reqs = [s \in {1} |-> Idle]

\* two connections, nothing stored yet
InitTwo ==
  /\ users = <<>>
  /\ applications = <<>>
  /\ nextId = 1
  /\ creator = <<>>
  /\ submitted = <<>>
  /\ agents = <<>>
  /\ newsletterSubscribers = <<>>
  /\ expired = {}
  /\ payments = <<>>
  /\ blogs = <<>>
  /\ reqs = [s \in {1, 2} |-> Idle]

\* two connections, after bob and jane were stored as agents, jane created
\* application 1 and PATCH /assign/1 gave it to bob
InitAssigned ==
  /\ users = << [email |-> "bob", name |-> "N", role |-> "agent"],
                [email |-> "jane", name |-> "N", role |-> "agent"] >>
  /\ applications = << [NoApp EXCEPT !._id = 1, !.userEmail = "jane",
                                     !.status = "Assigned",
                                     !.assignedAgent = "bob",
                                     !.applicationDate = "date"] >>
  /\ nextId = 2
  /\ creator = <<"jane">>
  /\ submitted = << [email |-> Undefined, status |-> Undefined] >>
  /\ agents = <<>>
  /\ newsletterSubscribers = <<>>
  /\ expired = {}
  /\ payments = <<>>
  /\ blogs = <<>>
  /\ reqs = [s \in {1, 2} |-> Idle]

(***************************************************************************)
(* Request bookkeeping                                                     *)
(***************************************************************************)
Finished == {"idle", "done", "unhandled"}

\* the header a client sends: an unguarded route never reads it
HeadersOf(route) == IF Guards(route) = <<>> THEN {NoHeader} ELSE Headers

BodyStatuses == {"approved"}

AgentEmails == {"bob"}

NoInput ==
  [id |-> 0, email |-> Undefined, name |-> Undefined, role |-> Undefined,
   status |-> Undefined, amount |-> 0]

\* the path, query and body values a request of a route carries
Inputs(route) ==
  CASE route = "POST /users" ->
         {[NoInput EXCEPT !.email = e, !.name = "N", !.role = ro] :
            e \in Emails, ro \in {Undefined, "user", "agent", "admin"}}
         \cup {[NoInput EXCEPT !.name = "N"], [NoInput EXCEPT !.email = "jane"]}
    [] route = "PATCH /assign/:id" ->
         {[NoInput EXCEPT !.id = i, !.email = e] : i \in PathIds, e \in AgentEmails}
    [] route = "PATCH /applications/:id/status" ->
         {[NoInput EXCEPT !.id = i, !.status = st] : i \in PathIds, st \in BodyStatuses}
    [] route = "GET /applications" ->
         {[NoInput EXCEPT !.email = e] : e \in Emails \cup {Undefined}}
    [] route \in {"PATCH /applications/reject/:id", "GET /applications/:id",
                  "DELETE /applications/:id", "index.js GET /applications/:id",
                  "index.js DELETE /applications/:id"} ->
         {[NoInput EXCEPT !.id = i] : i \in PathIds}
    [] route \in {"POST /agents", "POST /subscribe"} ->
         {[NoInput EXCEPT !.email = e, !.name = n] :
            e \in Emails \cup {Undefined}, n \in {"N", Undefined}}
    [] route = "PATCH /agents/:id/status" ->
         {[NoInput EXCEPT !.id = i, !.status = st] :
            i \in PathIds, st \in {"approved", "disapproved", "done"}}
    [] route = "index.js POST /payments" ->
         {[NoInput EXCEPT !.id = i, !.email = e] : i \in PathIds, e \in {"jane"}}
    [] route = "index.js POST /create-payment-intent" ->
         {[NoInput EXCEPT !.amount = a] : a \in {0, 100}}
    [] route = "part_001 POST /users" ->
         {[NoInput EXCEPT !.email = e, !.name = "N", !.role = ro] :
            e \in Emails, ro \in {Undefined, "admin"}}
    [] route = "index.js POST /applications" ->
         {[NoInput EXCEPT !.email = e, !.status = st] :
            e \in Emails, st \in {Undefined, "pending"}}
    [] OTHER -> {NoInput}

InsertRoutes ==
  {"POST /applications", "index.js POST /applications", "POST /agents"}

\* the requests in flight that may still insert a document with a new _id
PendingInserts ==
  Cardinality({s \in DOMAIN reqs :
                 reqs[s].route \in InsertRoutes /\ reqs[s].pc \notin Finished})

\* req.body of an application request: the fields the client sent
Body(r) == [email |-> r.email, status |-> r.status]

Log(r, events) == [r EXCEPT !.trace = @ \o events]

\* res.status(code).send(...): the response ends the request
Respond(r, code) == [r EXCEPT !.pc = "done", !.resp = code]

\* res.status(code).json({ message: body })
RespondWith(r, code, body) == [Respond(r, code) EXCEPT !.body = body]

\* a next() that skips the function that follows
AdvanceSkip(r) ==
  [r EXCEPT !.gi = @ + 2, !.pc = StageAt(r.route, r.gi + 2)]

\* next(): Express runs the next function of the route's chain
Advance(r) ==
  [r EXCEPT !.gi = @ + 1, !.pc = StageAt(r.route, r.gi + 1)]

\* an exception no try/catch of the chain catches: no response is sent
Unhandled(r) == [r EXCEPT !.pc = "unhandled"]

\* the promise of an async handler rejects outside any try/catch.  What
\* follows is the framework's doing and the sources do not fix its version:
\* Express 5 forwards the rejection to its default error handler, which
\* answers 500; Express 4 never sees it and no response is sent.
Uncaught(r, forwarded) == IF forwarded THEN Respond(r, 500) ELSE Unhandled(r)

(***************************************************************************)
(* A request arrives                                                       *)
(***************************************************************************)
\* the request is a POST /agents for an email that has an agent request
WillConflict(route, in) ==
  route = "POST /agents" /\ IdxByEmail(agents, in.email) # 0

Receive(s, routes) ==
  \E route \in routes :
    \E hdr \in HeadersOf(route), in \in Inputs(route) :
      /\ reqs[s].pc = "idle"
      /\ (route \in InsertRoutes /\ ~WillConflict(route, in)) =>
           nextId + PendingInserts <= MaxApps
      /\ route \in OldRoutes => Len(users) < MaxUsers
      /\ route = "index.js POST /payments" => Len(payments) < MaxPayments
      /\ reqs' = [reqs EXCEPT ![s] =
           [Idle EXCEPT !.route = route, !.hdr = hdr, !.id = in.id,
                        !.email = in.email, !.name = in.name,
                        !.role = in.role, !.status = in.status,
                        !.amount = in.amount,
                        !.pc = StageAt(route, 1), !.gi = 1,
                        !.pre = [users |-> users, applications |-> applications,
                                 agents |-> agents,
                                 newsletterSubscribers |-> newsletterSubscribers,
                                 payments |-> payments]]]
      /\ UNCHANGED <<users, applications, nextId, creator, submitted, rest>>

\* the bodies the profile routes are sent: any string is a role for the
\* client, and a PATCH body carries name, role or both
ProfileInputs(route) ==
  CASE route = "POST /users" ->
         {[NoInput EXCEPT !.email = e, !.name = "N", !.role = ro] :
            e \in Emails, ro \in {Undefined, "agent", "admin", "owner"}}
    [] route = "PATCH /users/:email" ->
         {[NoInput EXCEPT !.email = e, !.name = n, !.role = ro] :
            e \in Emails, n \in {Undefined, "M"},
            ro \in {Undefined, "admin", "owner"}}
         \ {[NoInput EXCEPT !.email = e] : e \in Emails}
    [] route = "PUT /make-admin" ->
         {[NoInput EXCEPT !.email = e] : e \in Emails \cup {Undefined}}
    [] OTHER -> {NoInput}

\* a request to a profile route arrives
ReceiveProfile(s) ==
  \E route \in ProfileRoutes :
    \E hdr \in HeadersOf(route), in \in ProfileInputs(route) :
      /\ reqs[s].pc = "idle"
      /\ reqs' = [reqs EXCEPT ![s] =
           [Idle EXCEPT !.route = route, !.hdr = hdr, !.id = in.id,
                        !.email = in.email, !.name = in.name,
                        !.role = in.role, !.status = in.status,
                        !.amount = in.amount,
                        !.pc = StageAt(route, 1), !.gi = 1,
                        !.pre = [users |-> users, applications |-> applications,
                                 agents |-> agents,
                                 newsletterSubscribers |-> newsletterSubscribers,
                                 payments |-> payments]]]
      /\ UNCHANGED <<users, applications, nextId, creator, submitted, rest>>

\* the method and paths under /blogs that clients request
BlogPaths ==
  { <<"POST", "blogs">>, <<"GET", "blogs">>, <<"GET", "blogs", "latest">>,
    <<"GET", "blogs", "xyz">> }
  \cup {<<"GET", "blogs", IdSegments[i]>> : i \in 1 .. 1}

\* a request under /blogs arrives and the router picks its chain
ReceivePath(s) ==
  \E path \in BlogPaths, hdr \in Headers :
    LET route == Dispatch(path) IN
      /\ reqs[s].pc = "idle"
      /\ route # "none"
      /\ route = "POST /blogs" => nextId <= MaxBlogs
      /\ reqs' = [reqs EXCEPT ![s] =
           [Idle EXCEPT !.route = route, !.hdr = hdr, !.path = path,
                        !.id = ParamId(path),
                        !.pc = StageAt(route, 1), !.gi = 1,
                        !.pre = [users |-> users, applications |-> applications,
                                 agents |-> agents,
                                 newsletterSubscribers |-> newsletterSubscribers,
                                 payments |-> payments]]]
      /\ UNCHANGED <<users, applications, nextId, creator, submitted, rest>>

\* what arrives in the races on one application: the status route with an
\* agent's token, the assignment route, the delete route with the creator's
\* token
RaceRoutes ==
  {"PATCH /applications/:id/status", "PATCH /applications/assign/:id",
   "DELETE /applications/:id"}

RaceHeaders(route) ==
  CASE route = "PATCH /applications/:id/status" ->
         {<<"Bearer", SP, "tBob">>, <<"Bearer", SP, "tJane">>}
    [] route = "DELETE /applications/:id" -> {<<"Bearer", SP, "tJane">>}
    [] route = "POST /agents" -> {<<"Bearer", SP, "tJane">>}
    [] OTHER -> {NoHeader}

RaceInputs(route) ==
  CASE route = "PATCH /applications/:id/status" ->
         {[NoInput EXCEPT !.id = 1, !.status = st] : st \in BodyStatuses}
    [] route = "PATCH /applications/assign/:id" ->
         {[NoInput EXCEPT !.id = 1, !.email = e] : e \in Emails}
    [] route = "DELETE /applications/:id" -> {[NoInput EXCEPT !.id = 1]}
    [] route \in {"POST /agents", "POST /subscribe"} ->
         {[NoInput EXCEPT !.email = e, !.name = "N"] : e \in Emails}
    [] OTHER -> {NoInput}

\* a request arrives on a connection while the other may be serving one
ReceiveRace(s, routes) ==
  \E route \in routes :
    \E hdr \in RaceHeaders(route), in \in RaceInputs(route) :
      /\ reqs[s].pc = "idle"
      /\ reqs' = [reqs EXCEPT ![s] =
           [Idle EXCEPT !.route = route, !.hdr = hdr, !.id = in.id,
                        !.email = in.email, !.name = in.name,
                        !.role = in.role, !.status = in.status,
                        !.pc = StageAt(route, 1), !.gi = 1,
                        !.pre = [users |-> users, applications |-> applications,
                                 agents |-> agents,
                                 newsletterSubscribers |-> newsletterSubscribers,
                                 payments |-> payments]]]
      /\ UNCHANGED <<users, applications, nextId, creator, submitted, rest>>

\* the exchange is over (response flushed, or the socket closed on a request
\* that never got one): the slot is free for the next request
Close(s) ==
  /\ reqs[s].pc \in {"done", "unhandled"}
  /\ reqs' = [reqs EXCEPT ![s] = Idle]
  /\ UNCHANGED <<users, applications, nextId, creator, submitted, rest>>

(***************************************************************************)
(* Middleware                                                              *)
(***************************************************************************)
\* the ID tokens that expire or are revoked while the server runs
ExpiringTokens == {<<"tJane">>, <<"tBob">>}

\* the identity provider stops accepting a token
Expire ==
  /\ \E tok \in ExpiringTokens \ expired : expired' = expired \cup {tok}
  /\ UNCHANGED <<users, applications, nextId, creator, submitted, agents,
                 newsletterSubscribers, payments, blogs, reqs>>

\* await admin.auth().verifyIdToken(token), as the identity provider answers
\* at the time of the call: a token that has expired since is rejected
Decode(tok) == IF tok \in expired THEN NoUser ELSE VerifyIdToken(tok)

VerifyJWT(s) ==
  LET r == reqs[s]
      decoded == Decode(SecondPiece(r.hdr))
  IN /\ r.pc = "verifyJWT"
     /\ reqs' = [reqs EXCEPT ![s] =
          IF ~HeaderPresent(r.hdr)
            THEN Respond(Log(r, <<"extract">>), 401)
          ELSE IF decoded.ok
            THEN Advance([Log(r, <<"extract", "verify">>) EXCEPT !.user = decoded])
          ELSE Respond(Log(r, <<"extract", "verify">>), JWTRejectStatus)]
     /\ UNCHANGED <<users, applications, nextId, creator, submitted, rest>>

\* a verifyToken that keeps the decoded token of a principal it has served
\* (here: one that has created an application) and does not ask again
VerifyTokenCached(s) ==
  LET r == reqs[s]
      known == VerifyIdToken(SecondPiece(r.hdr))
      cached == \E i \in 1 .. Len(creator) : creator[i] = known.email
      decodedToken == IF cached THEN known ELSE Decode(SecondPiece(r.hdr))
  IN /\ r.pc = "verifyToken"
     /\ reqs' = [reqs EXCEPT ![s] =
          IF ~StartsWithBearer(r.hdr)
            THEN Respond(Log(r, <<"extract">>), 401)
          ELSE IF decodedToken.ok
            THEN Advance([Log(r, <<"extract", "verify">>) EXCEPT !.user = decodedToken])
          ELSE Respond(Log(r, <<"extract", "verify">>), 401)]
     /\ UNCHANGED <<users, applications, nextId, creator, submitted, rest>>

VerifyToken(s) ==
  LET r == reqs[s]
      decodedToken == Decode(SecondPiece(r.hdr))
  IN /\ r.pc = "verifyToken"
     /\ reqs' = [reqs EXCEPT ![s] =
          IF ~StartsWithBearer(r.hdr)
            THEN Respond(Log(r, <<"extract">>), 401)
          ELSE IF decodedToken.ok
            THEN Advance([Log(r, <<"extract", "verify">>) EXCEPT !.user = decodedToken])
          ELSE Respond(Log(r, <<"extract", "verify">>), 401)]
     /\ UNCHANGED <<users, applications, nextId, creator, submitted, rest>>

\* users.findOne({ email: req.user.email }), NoUserDoc for null
RoleStoreGet(coll, email) ==
  IF IdxByEmail(coll, email) = 0 THEN NoUserDoc ELSE coll[IdxByEmail(coll, email)]

\* what the Role Store answered, kept with the request
LookupOf(user) == IF user = NoUserDoc THEN "missing" ELSE user.role

\* a gate that lets an admin through every role gate
RoleMatchesHierarchy(user, required) ==
  user # NoUserDoc /\ user.role \in {required, "admin"}

\* !(!user || user.role !== required)
RoleMatches(user, required) == user # NoUserDoc /\ user.role = required

\* a gate that reads user.role of a null record: the TypeError is caught
RoleGateNullDeref(r, dbOk, required) ==
  LET user == RoleStoreGet(users, r.user.email) IN
  IF ~r.user.ok
    THEN Respond([r EXCEPT !.lookup = "error"], 500)
  ELSE IF ~dbOk
    THEN Respond([Log(r, <<"resolve">>) EXCEPT !.lookup = "error"], 500)
  ELSE IF user = NoUserDoc
    THEN Respond([Log(r, <<"resolve">>) EXCEPT !.lookup = LookupOf(user)], 500)
  ELSE IF ~RoleMatches(user, required)
    THEN Respond([Log(r, <<"resolve", "compare">>) EXCEPT !.lookup = LookupOf(user)], 403)
  ELSE Advance([Log(r, <<"resolve", "compare">>) EXCEPT !.lookup = LookupOf(user)])

\* a gate whose catch branch answers Forbidden
RoleGateErrorForbidden(r, dbOk, required) ==
  LET user == RoleStoreGet(users, r.user.email) IN
  IF ~r.user.ok
    THEN Respond([r EXCEPT !.lookup = "error"], 403)
  ELSE IF ~dbOk
    THEN Respond([Log(r, <<"resolve">>) EXCEPT !.lookup = "error"], 403)
  ELSE IF ~RoleMatches(user, required)
    THEN Respond([Log(r, <<"resolve", "compare">>) EXCEPT !.lookup = LookupOf(user)], 403)
  ELSE Advance([Log(r, <<"resolve", "compare">>) EXCEPT !.lookup = LookupOf(user)])

\* the body of verifyAdmin (required = "admin") and verifyAgent ("agent");
\* reading req.user.email of a request without req.user throws inside the try
RoleGate(r, dbOk, required) ==
  LET user == RoleStoreGet(users, r.user.email) IN
  IF ~r.user.ok
    THEN Respond([r EXCEPT !.lookup = "error"], 500)
  ELSE IF ~dbOk
    THEN Respond([Log(r, <<"resolve">>) EXCEPT !.lookup = "error"], 500)
  ELSE IF ~RoleMatches(user, required)
    THEN Respond([Log(r, <<"resolve", "compare">>) EXCEPT !.lookup = LookupOf(user)], 403)
  ELSE Advance([Log(r, <<"resolve", "compare">>) EXCEPT !.lookup = LookupOf(user)])

\* a verifyAdmin that creates the missing UserRecord before it answers
VerifyAdminAutoCreate(s) ==
  LET r == reqs[s]
      missing == r.user.ok /\ IdxByEmail(users, r.user.email) = 0
  IN /\ r.pc = "verifyAdmin"
     /\ \E dbOk \in BOOLEAN :
          /\ reqs' = [reqs EXCEPT ![s] = RoleGate(r, dbOk, "admin")]
          /\ users' = IF dbOk /\ missing
                        THEN Append(users, [email |-> r.user.email,
                                            name |-> Undefined, role |-> "user"])
                        ELSE users
     /\ UNCHANGED <<applications, nextId, creator, submitted, rest>>

VerifyAdmin(s) ==
  /\ reqs[s].pc = "verifyAdmin"
  /\ \E dbOk \in BOOLEAN :
       reqs' = [reqs EXCEPT ![s] = RoleGate(reqs[s], dbOk, "admin")]
  /\ UNCHANGED <<users, applications, nextId, creator, submitted, rest>>

VerifyAgent(s) ==
  /\ reqs[s].pc = "verifyAgent"
  /\ \E dbOk \in BOOLEAN :
       reqs' = [reqs EXCEPT ![s] = RoleGate(reqs[s], dbOk, "agent")]
  /\ UNCHANGED <<users, applications, nextId, creator, submitted, rest>>

(***************************************************************************)
(* Handlers of the full server (src/README.md)                             *)
(***************************************************************************)
\* app.post("/users"): validation, default role, upsert by email
PostUsers(s) ==
  LET r == reqs[s]
      userData == [email |-> r.email, name |-> r.name,
                   role |-> IF r.role = Undefined THEN "user" ELSE r.role]
      i == IdxByEmail(users, r.email)
  IN /\ r.route = "POST /users"
     /\ r.pc = "handler"
     /\ \E dbOk \in BOOLEAN :
          IF r.email = Undefined \/ r.name = Undefined
            THEN /\ reqs' = [reqs EXCEPT ![s] = Respond(Log(r, <<"handler">>), 400)]
                 /\ UNCHANGED users
          ELSE IF ~dbOk
            THEN /\ reqs' = [reqs EXCEPT ![s] = Respond(Log(r, <<"handler">>), 500)]
                 /\ UNCHANGED users
          ELSE /\ users' = IF i = 0 THEN Append(users, userData)
                           ELSE [users EXCEPT ![i] = userData]
               /\ reqs' = [reqs EXCEPT ![s] = Respond(Log(r, <<"handler">>), 200)]
     /\ UNCHANGED <<applications, nextId, creator, submitted, rest>>

\* !(email !== req.user.email && req.user.role !== "admin"): req.user is the
\* decoded ID token, so role is the token's claim
MayActFor(email, user) == ~(email # user.email /\ user.role # "admin")

\* the document after { $set: updateData } with the fields the body carries
SetFields(doc, name, role) ==
  [doc EXCEPT !.name = IF name = Undefined THEN @ ELSE name,
              !.role = IF role = Undefined THEN @ ELSE role]

\* app.patch("/users/:email", verifyToken)
PatchUsers(s) ==
  LET r == reqs[s]
      i == IdxByEmail(users, r.email)
      modifiedCount ==
        IF i # 0 /\ SetFields(users[i], r.name, r.role) # users[i] THEN 1 ELSE 0
  IN /\ r.route = "PATCH /users/:email"
     /\ r.pc = "handler"
     /\ \E dbOk \in BOOLEAN :
          IF ~MayActFor(r.email, r.user)
            THEN /\ reqs' = [reqs EXCEPT ![s] =
                      Respond(Log(r, <<"handler", "ownership">>), 403)]
                 /\ UNCHANGED users
          ELSE IF ~dbOk
            THEN /\ reqs' = [reqs EXCEPT ![s] =
                      Respond(Log(r, <<"handler", "ownership">>), 500)]
                 /\ UNCHANGED users
          ELSE /\ users' = IF i = 0 THEN users
                           ELSE [users EXCEPT ![i] = SetFields(@, r.name, r.role)]
               /\ reqs' = [reqs EXCEPT ![s] =
                    Respond(Log(r, <<"handler", "ownership", "updateOne">>),
                            IF modifiedCount = 1 THEN 200 ELSE 404)]
     /\ UNCHANGED <<applications, nextId, creator, submitted, rest>>

\* app.put("/make-admin")
MakeAdmin(s) ==
  LET r == reqs[s]
      i == IdxByEmail(users, r.email)
      modifiedCount == IF i # 0 /\ users[i].role # "admin" THEN 1 ELSE 0
  IN /\ r.route = "PUT /make-admin"
     /\ r.pc = "handler"
     /\ \E dbOk \in BOOLEAN :
          IF r.email = Undefined
            THEN /\ reqs' = [reqs EXCEPT ![s] = Respond(Log(r, <<"handler">>), 400)]
                 /\ UNCHANGED users
          ELSE IF ~dbOk
            THEN /\ reqs' = [reqs EXCEPT ![s] = Respond(Log(r, <<"handler">>), 500)]
                 /\ UNCHANGED users
          ELSE /\ users' = IF i = 0 THEN users
                           ELSE [users EXCEPT ![i].role = "admin"]
               /\ reqs' = [reqs EXCEPT ![s] =
                    Respond(Log(r, <<"handler", "updateOne">>),
                            IF modifiedCount > 0 THEN 200 ELSE 404)]
     /\ UNCHANGED <<applications, nextId, creator, submitted, rest>>

\* app.get("/all", verifyJWT): no try/catch around the find
GetAll(s) ==
  LET r == reqs[s]
  IN /\ r.route = "GET /all"
     /\ r.pc = "handler"
     /\ \E dbOk \in BOOLEAN, forwarded \in BOOLEAN :
          reqs' = [reqs EXCEPT ![s] =
            IF dbOk THEN Respond(Log(r, <<"handler">>), 200)
            ELSE Uncaught(Log(r, <<"handler", "throw">>), forwarded)]
     /\ UNCHANGED <<users, applications, nextId, creator, submitted, rest>>

\* app.patch("/assign/:id", verifyJWT): no try/catch, the result is sent as is
PatchAssign(s) ==
  LET r == reqs[s]
      i == IdxById(applications, r.id)
  IN /\ r.route = "PATCH /assign/:id"
     /\ r.pc = "handler"
     /\ \E dbOk \in BOOLEAN, forwarded \in BOOLEAN :
          IF ObjectIdThrows(r.id) \/ ~dbOk
            THEN /\ reqs' = [reqs EXCEPT ![s] =
                      Uncaught(Log(r, <<"handler", "throw">>), forwarded)]
                 /\ UNCHANGED applications
            ELSE /\ applications' =
                      IF i = 0 THEN applications
                      ELSE [applications EXCEPT ![i].assignedAgent = r.email,
                                                ![i].status = "Assigned"]
                 /\ reqs' = [reqs EXCEPT ![s] =
                      Respond(Log(r, <<"handler", "updateOne">>), 200)]
     /\ UNCHANGED <<users, nextId, creator, submitted, rest>>

\* app.patch("/applications/assign/:id"), up to the
\* users.findOne({ email: agentEmail, role: "agent" })
AssignFind(s) ==
  LET r == reqs[s]
      agent == \E i \in 1 .. Len(users) :
                 users[i].email = r.email /\ users[i].role = "agent"
  IN /\ r.route = "PATCH /applications/assign/:id"
     /\ r.pc = "handler"
     /\ \E dbOk \in BOOLEAN :
          reqs' = [reqs EXCEPT ![s] =
            IF r.email = Undefined
              THEN Respond(Log(r, <<"handler">>), 400)
            ELSE IF ~dbOk
              THEN Respond(Log(r, <<"handler">>), 500)
            ELSE IF ~agent
              THEN Respond(Log(r, <<"handler", "findOne">>), 404)
            ELSE [Log(r, <<"handler", "findOne">>) EXCEPT !.pc = "handler2"]]
     /\ UNCHANGED <<users, applications, nextId, creator, submitted, rest>>

\* ... and from the applications.updateOne on
AssignUpdate(s) ==
  LET r == reqs[s]
      i == IdxById(applications, r.id)
      matchedCount == IF i = 0 THEN 0 ELSE 1
  IN /\ r.route = "PATCH /applications/assign/:id"
     /\ r.pc = "handler2"
     /\ \E dbOk \in BOOLEAN :
          IF ObjectIdThrows(r.id) \/ ~dbOk
            THEN /\ reqs' = [reqs EXCEPT ![s] = Respond(r, 500)]
                 /\ UNCHANGED applications
            ELSE /\ applications' =
                      IF i = 0 THEN applications
                      ELSE [applications EXCEPT ![i].assignedAgent = r.email,
                                                ![i].status = "Assigned"]
                 /\ reqs' = [reqs EXCEPT ![s] =
                      Respond(Log(r, <<"updateOne">>),
                              IF matchedCount = 0 THEN 404 ELSE 200)]
     /\ UNCHANGED <<users, nextId, creator, submitted, rest>>

\* app.patch("/applications/reject/:id", verifyToken, verifyAdmin)
PatchReject(s) ==
  LET r == reqs[s]
      i == IdxById(applications, r.id)
      matchedCount == IF i = 0 THEN 0 ELSE 1
  IN /\ r.route = "PATCH /applications/reject/:id"
     /\ r.pc = "handler"
     /\ \E dbOk \in BOOLEAN :
          IF ObjectIdThrows(r.id) \/ ~dbOk
            THEN /\ reqs' = [reqs EXCEPT ![s] = Respond(Log(r, <<"handler">>), 500)]
                 /\ UNCHANGED applications
            ELSE /\ applications' =
                      IF i = 0 THEN applications
                      ELSE [applications EXCEPT ![i].status = "Rejected"]
                 /\ reqs' = [reqs EXCEPT ![s] =
                      Respond(Log(r, <<"handler", "updateOne">>),
                              IF matchedCount = 0 THEN 404 ELSE 200)]
     /\ UNCHANGED <<users, nextId, creator, submitted, rest>>

\* app.post("/applications", verifyToken): the server sets userEmail and status
PostApplications(s) ==
  LET r == reqs[s]
      application == [_id |-> nextId, userEmail |-> r.user.email,
                      email |-> r.email, status |-> "pending",
                      assignedAgent |-> Undefined, applicationDate |-> "date"]
  IN /\ r.route = "POST /applications"
     /\ r.pc = "handler"
     /\ \E dbOk \in BOOLEAN :
          IF ~dbOk
            THEN /\ reqs' = [reqs EXCEPT ![s] = Respond(Log(r, <<"handler">>), 500)]
                 /\ UNCHANGED <<applications, nextId, creator, submitted>>
            ELSE /\ applications' = Append(applications, application)
                 /\ nextId' = nextId + 1
                 /\ creator' = Append(creator, r.user.email)
                 /\ submitted' = Append(submitted, Body(r))
                 /\ reqs' = [reqs EXCEPT ![s] =
                      Respond(Log(r, <<"handler", "insertOne">>), 201)]
     /\ UNCHANGED <<users, rest>>

\* app.patch("/applications/:id/status", verifyToken, verifyAgent), up to
\* the findOne({ _id, assignedAgent: req.user.email })
PatchStatusFind(s) ==
  LET r == reqs[s]
      byId == FindById(applications, r.id)
      application == IF byId.assignedAgent = r.user.email THEN byId ELSE NoApp
  IN /\ r.route = "PATCH /applications/:id/status"
     /\ r.pc = "handler"
     /\ \E dbOk \in BOOLEAN :
          reqs' = [reqs EXCEPT ![s] =
            IF ObjectIdThrows(r.id) \/ ~dbOk
              THEN Respond(Log(r, <<"handler">>), 500)
            ELSE IF application = NoApp
              THEN Respond(Log(r, <<"handler", "findOne">>), 404)
            ELSE [Log(r, <<"handler", "findOne">>) EXCEPT
                    !.found = application, !.pc = "handler2"]]
     /\ UNCHANGED <<users, applications, nextId, creator, submitted, rest>>

\* ... and from the updateOne({ _id }, { $set: { status } }) on
PatchStatusUpdate(s) ==
  LET r == reqs[s]
      i == IdxById(applications, r.id)
      modifiedCount == IF i # 0 /\ applications[i].status # r.status THEN 1 ELSE 0
  IN /\ r.route = "PATCH /applications/:id/status"
     /\ r.pc = "handler2"
     /\ \E dbOk \in BOOLEAN :
          IF ~dbOk
            THEN /\ reqs' = [reqs EXCEPT ![s] = Respond(r, 500)]
                 /\ UNCHANGED applications
            ELSE /\ applications' =
                      IF i = 0 THEN applications
                      ELSE [applications EXCEPT ![i].status = r.status]
                 /\ reqs' = [reqs EXCEPT ![s] =
                      Respond(Log(r, <<"updateOne">>),
                              IF modifiedCount = 1 THEN 200 ELSE 404)]
     /\ UNCHANGED <<users, nextId, creator, submitted, rest>>

\* an ownership test that lets everyone through
OwnerOrAdminAlways(application, user) == TRUE

\* the ownership test of GET and DELETE /applications/:id
OwnerOrAdmin(application, user) == MayActFor(application.userEmail, user)

\* app.get("/applications", verifyToken)
GetApplications(s) ==
  LET r == reqs[s]
      email == IF r.email # Undefined THEN r.email ELSE r.user.email
  IN /\ r.route = "GET /applications"
     /\ r.pc = "handler"
     /\ \E dbOk \in BOOLEAN :
          reqs' = [reqs EXCEPT ![s] =
            IF email = Undefined
              THEN Respond(Log(r, <<"handler">>), 400)
            ELSE IF ~MayActFor(email, r.user)
              THEN Respond(Log(r, <<"handler", "ownership">>), 403)
            ELSE IF ~dbOk
              THEN Respond(Log(r, <<"handler", "ownership">>), 500)
            ELSE Respond(Log(r, <<"handler", "ownership", "find">>), 200)]
     /\ UNCHANGED <<users, applications, nextId, creator, submitted, rest>>

\* app.get("/applications/all", verifyToken, verifyAdmin)
GetApplicationsAll(s) ==
  LET r == reqs[s]
  IN /\ r.route = "GET /applications/all"
     /\ r.pc = "handler"
     /\ \E dbOk \in BOOLEAN :
          reqs' = [reqs EXCEPT ![s] =
            IF dbOk THEN Respond(Log(r, <<"handler", "find">>), 200)
            ELSE Respond(Log(r, <<"handler">>), 500)]
     /\ UNCHANGED <<users, applications, nextId, creator, submitted, rest>>

\* app.get("/applications/:id", verifyToken)
GetApplicationById(s) ==
  LET r == reqs[s]
      application == FindById(applications, r.id)
  IN /\ r.route = "GET /applications/:id"
     /\ r.pc = "handler"
     /\ \E dbOk \in BOOLEAN :
          reqs' = [reqs EXCEPT ![s] =
            IF ObjectIdThrows(r.id) \/ ~dbOk
              THEN Respond(Log(r, <<"handler">>), 500)
            ELSE IF application = NoApp
              THEN Respond(Log(r, <<"handler", "findOne">>), 404)
            ELSE IF ~OwnerOrAdmin(application, r.user)
              THEN Respond([Log(r, <<"handler", "findOne", "ownership">>)
                              EXCEPT !.found = application], 403)
            ELSE Respond([Log(r, <<"handler", "findOne", "ownership">>)
                            EXCEPT !.found = application], 200)]
     /\ UNCHANGED <<users, applications, nextId, creator, submitted, rest>>

\* app.delete("/applications/:id", verifyToken), up to the ownership test
DeleteApplicationFind(s) ==
  LET r == reqs[s]
      application == FindById(applications, r.id)
  IN /\ r.route = "DELETE /applications/:id"
     /\ r.pc = "handler"
     /\ \E dbOk \in BOOLEAN :
          reqs' = [reqs EXCEPT ![s] =
            IF ObjectIdThrows(r.id) \/ ~dbOk
              THEN Respond(Log(r, <<"handler">>), 500)
            ELSE IF application = NoApp
              THEN Respond(Log(r, <<"handler", "findOne">>), 404)
            ELSE IF ~OwnerOrAdmin(application, r.user)
              THEN Respond([Log(r, <<"handler", "findOne", "ownership">>)
                              EXCEPT !.found = application], 403)
            ELSE [Log(r, <<"handler", "findOne", "ownership">>) EXCEPT
                    !.found = application, !.pc = "handler2"]]
     /\ UNCHANGED <<users, applications, nextId, creator, submitted, rest>>

\* ... and the deleteOne({ _id }), whose result is not looked at
DeleteApplicationDelete(s) ==
  LET r == reqs[s]
  IN /\ r.route = "DELETE /applications/:id"
     /\ r.pc = "handler2"
     /\ \E dbOk \in BOOLEAN :
          IF ~dbOk
            THEN /\ reqs' = [reqs EXCEPT ![s] = Respond(r, 500)]
                 /\ UNCHANGED applications
            ELSE /\ applications' = RemoveAt(applications, IdxById(applications, r.id))
                 /\ reqs' = [reqs EXCEPT ![s] = Respond(Log(r, <<"deleteOne">>), 200)]
     /\ UNCHANGED <<users, nextId, creator, submitted, rest>>

\* a test that finds no document
ExistsNever(coll, email) == FALSE

\* the test of a findOne result that guards an insert: if (existingAgent),
\* if (existingSubscriber)
Exists(coll, email) == IdxByEmail(coll, email) # 0

\* app.post("/agents", verifyToken), up to the findOne({ email }); the body
\* carries district whenever it carries name
PostAgentsFind(s) ==
  LET r == reqs[s]
  IN /\ r.route = "POST /agents"
     /\ r.pc = "handler"
     /\ \E dbOk \in BOOLEAN :
          reqs' = [reqs EXCEPT ![s] =
            IF r.name = Undefined \/ r.email = Undefined
              THEN Respond(Log(r, <<"handler">>), 400)
            ELSE IF ~dbOk
              THEN Respond(Log(r, <<"handler">>), 500)
            ELSE IF Exists(agents, r.email)
              THEN Respond(Log(r, <<"handler", "findOne">>), 409)
            ELSE [Log(r, <<"handler", "findOne">>) EXCEPT !.pc = "handler2"]]
     /\ UNCHANGED <<users, applications, nextId, creator, submitted, rest>>

\* ... and the insertOne(agentData)
PostAgentsInsert(s) ==
  LET r == reqs[s]
      agentData == [_id |-> nextId, email |-> r.email, status |-> "pending",
                    requestedBy |-> r.user.email]
  IN /\ r.route = "POST /agents"
     /\ r.pc = "handler2"
     /\ \E dbOk \in BOOLEAN :
          IF ~dbOk
            THEN /\ reqs' = [reqs EXCEPT ![s] = Respond(r, 500)]
                 /\ UNCHANGED <<agents, nextId>>
            ELSE /\ agents' = Append(agents, agentData)
                 /\ nextId' = nextId + 1
                 /\ reqs' = [reqs EXCEPT ![s] = Respond(Log(r, <<"insertOne">>), 201)]
     /\ UNCHANGED <<users, applications, creator, submitted,
                    newsletterSubscribers, expired, payments, blogs>>

AgentStatuses == {"approved", "pending", "disapproved"}

\* app.patch("/agents/:id/status")
PatchAgentStatus(s) ==
  LET r == reqs[s]
      i == IdxById(agents, r.id)
      modifiedCount == IF i # 0 /\ agents[i].status # r.status THEN 1 ELSE 0
  IN /\ r.route = "PATCH /agents/:id/status"
     /\ r.pc = "handler"
     /\ \E dbOk \in BOOLEAN :
          IF r.status \notin AgentStatuses
            THEN /\ reqs' = [reqs EXCEPT ![s] = Respond(Log(r, <<"handler">>), 400)]
                 /\ UNCHANGED agents
          ELSE IF ObjectIdThrows(r.id) \/ ~dbOk
            THEN /\ reqs' = [reqs EXCEPT ![s] = Respond(Log(r, <<"handler">>), 500)]
                 /\ UNCHANGED agents
          ELSE /\ agents' = IF i = 0 THEN agents
                            ELSE [agents EXCEPT ![i].status = r.status]
               /\ reqs' = [reqs EXCEPT ![s] =
                    Respond(Log(r, <<"handler", "updateOne">>),
                            IF modifiedCount = 1 THEN 200 ELSE 404)]
     /\ UNCHANGED <<users, applications, nextId, creator, submitted,
                    newsletterSubscribers, expired, payments, blogs>>

\* app.post("/subscribe"), up to the findOne({ email })
SubscribeFind(s) ==
  LET r == reqs[s]
  IN /\ r.route = "POST /subscribe"
     /\ r.pc = "handler"
     /\ \E dbOk \in BOOLEAN :
          reqs' = [reqs EXCEPT ![s] =
            IF r.name = Undefined \/ r.email = Undefined
              THEN Respond(Log(r, <<"handler">>), 400)
            ELSE IF ~dbOk
              THEN Respond(Log(r, <<"handler">>), 500)
            ELSE IF Exists(newsletterSubscribers, r.email)
              THEN Respond(Log(r, <<"handler", "findOne">>), 409)
            ELSE [Log(r, <<"handler", "findOne">>) EXCEPT !.pc = "handler2"]]
     /\ UNCHANGED <<users, applications, nextId, creator, submitted, rest>>

\* ... and the insertOne(newSubscriber)
SubscribeInsert(s) ==
  LET r == reqs[s]
      newSubscriber == [name |-> r.name, email |-> r.email,
                        subscribedAt |-> "date", active |-> TRUE]
  IN /\ r.route = "POST /subscribe"
     /\ r.pc = "handler2"
     /\ \E dbOk \in BOOLEAN :
          IF ~dbOk
            THEN /\ reqs' = [reqs EXCEPT ![s] = Respond(r, 500)]
                 /\ UNCHANGED newsletterSubscribers
            ELSE /\ newsletterSubscribers' =
                      Append(newsletterSubscribers, newSubscriber)
                 /\ reqs' = [reqs EXCEPT ![s] = Respond(Log(r, <<"insertOne">>), 201)]
     /\ UNCHANGED <<users, applications, nextId, creator, submitted,
                    agents, expired, payments, blogs>>

(***************************************************************************)
(* Handlers of src/index.js                                                *)
(***************************************************************************)
\* app.post("/applications", verifyToken): the body is stored as it is
IndexPostApplications(s) ==
  LET r == reqs[s]
      application == [_id |-> nextId, userEmail |-> Undefined,
                      email |-> r.email, status |-> r.status,
                      assignedAgent |-> Undefined, applicationDate |-> Undefined]
  IN /\ r.route = "index.js POST /applications"
     /\ r.pc = "handler"
     /\ \E dbOk \in BOOLEAN :
          IF ~dbOk
            THEN /\ reqs' = [reqs EXCEPT ![s] = Respond(Log(r, <<"handler">>), 500)]
                 /\ UNCHANGED <<applications, nextId, creator, submitted>>
            ELSE /\ applications' = Append(applications, application)
                 /\ nextId' = nextId + 1
                 /\ creator' = Append(creator, r.user.email)
                 /\ submitted' = Append(submitted, Body(r))
                 /\ reqs' = [reqs EXCEPT ![s] =
                      Respond(Log(r, <<"handler", "insertOne">>), 200)]
     /\ UNCHANGED <<users, rest>>

\* app.get("/applications/:id", verifyToken)
IndexGetApplicationById(s) ==
  LET r == reqs[s]
      application == FindById(applications, r.id)
  IN /\ r.route = "index.js GET /applications/:id"
     /\ r.pc = "handler"
     /\ \E dbOk \in BOOLEAN :
          reqs' = [reqs EXCEPT ![s] =
            IF ObjectIdThrows(r.id) \/ ~dbOk
              THEN Respond(Log(r, <<"handler">>), 500)
            ELSE IF application = NoApp
              THEN Respond(Log(r, <<"handler", "findOne">>), 404)
            ELSE Respond([Log(r, <<"handler", "findOne">>)
                            EXCEPT !.found = application], 200)]
     /\ UNCHANGED <<users, applications, nextId, creator, submitted, rest>>

\* app.delete("/applications/:id", verifyToken)
IndexDeleteApplication(s) ==
  LET r == reqs[s]
      deletedCount == IF IdxById(applications, r.id) = 0 THEN 0 ELSE 1
  IN /\ r.route = "index.js DELETE /applications/:id"
     /\ r.pc = "handler"
     /\ \E dbOk \in BOOLEAN :
          IF ObjectIdThrows(r.id) \/ ~dbOk
            THEN /\ reqs' = [reqs EXCEPT ![s] = Respond(Log(r, <<"handler">>), 500)]
                 /\ UNCHANGED applications
            ELSE /\ applications' = RemoveAt(applications, IdxById(applications, r.id))
                 /\ reqs' = [reqs EXCEPT ![s] =
                      Respond(Log(r, <<"handler", "deleteOne">>),
                              IF deletedCount = 1 THEN 200 ELSE 404)]
     /\ UNCHANGED <<users, nextId, creator, submitted, rest>>

(***************************************************************************)
(* Blog handlers of the full server                                        *)
(***************************************************************************)
\* the _ids of find(...).sort({ publishDate: -1 }).toArray() over the
\* documents at the positions S of the blogs collection
RECURSIVE SortedByDate(_)
SortedByDate(S) ==
  IF S = {} THEN <<>>
  ELSE LET m == CHOOSE i \in S :
                  \A j \in S : \/ blogs[j].publishDate < blogs[i].publishDate
                               \/ (blogs[j].publishDate = blogs[i].publishDate /\ i <= j)
       IN <<blogs[m]._id>> \o SortedByDate(S \ {m})

\* cursor.limit(n)
Limit(seq, n) == SubSeq(seq, 1, IF Len(seq) < n THEN Len(seq) ELSE n)

\* app.post("/blogs", verifyToken, verifyAgent); new Date() is later on every
\* insert
PostBlogs(s) ==
  LET r == reqs[s]
      blog == [_id |-> nextId, authorEmail |-> r.user.email, publishDate |-> nextId]
  IN /\ r.route = "POST /blogs"
     /\ r.pc = "handler"
     /\ \E dbOk \in BOOLEAN :
          IF ~dbOk
            THEN /\ reqs' = [reqs EXCEPT ![s] = Respond(Log(r, <<"handler">>), 500)]
                 /\ UNCHANGED <<blogs, nextId>>
            ELSE /\ blogs' = Append(blogs, blog)
                 /\ nextId' = nextId + 1
                 /\ reqs' = [reqs EXCEPT ![s] =
                      Respond(Log(r, <<"handler", "insertOne">>), 201)]
     /\ UNCHANGED <<users, applications, creator, submitted, agents,
                    newsletterSubscribers, expired, payments>>

\* app.get("/blogs", verifyToken), up to users.findOne and the read of
\* user.role, which throws a TypeError inside the try when user is null
GetBlogsUser(s) ==
  LET r == reqs[s]
      user == RoleStoreGet(users, r.user.email)
  IN /\ r.route = "GET /blogs"
     /\ r.pc = "handler"
     /\ \E dbOk \in BOOLEAN :
          reqs' = [reqs EXCEPT ![s] =
            IF ~dbOk
              THEN Respond([Log(r, <<"handler">>) EXCEPT !.lookup = "error"], 500)
            ELSE IF user = NoUserDoc
              THEN Respond([Log(r, <<"handler", "findOne", "throw">>)
                              EXCEPT !.lookup = LookupOf(user)], 500)
            ELSE [Log(r, <<"handler", "findOne">>) EXCEPT
                    !.lookup = LookupOf(user), !.pc = "handler2"]]
     /\ UNCHANGED <<users, applications, nextId, creator, submitted, rest>>

\* ... and the blogs.find(query).sort(...).toArray()
GetBlogsFind(s) ==
  LET r == reqs[s]
      hits == {i \in 1 .. Len(blogs) :
                 r.lookup = "agent" => blogs[i].authorEmail = r.user.email}
  IN /\ r.route = "GET /blogs"
     /\ r.pc = "handler2"
     /\ \E dbOk \in BOOLEAN :
          reqs' = [reqs EXCEPT ![s] =
            IF ~dbOk THEN Respond(r, 500)
            ELSE Respond([Log(r, <<"find">>) EXCEPT !.list = SortedByDate(hits)], 200)]
     /\ UNCHANGED <<users, applications, nextId, creator, submitted, rest>>

\* app.get("/blogs/:id", verifyToken)
GetBlogById(s) ==
  LET r == reqs[s]
      i == IdxById(blogs, r.id)
  IN /\ r.route = "GET /blogs/:id"
     /\ r.pc = "handler"
     /\ \E dbOk \in BOOLEAN :
          reqs' = [reqs EXCEPT ![s] =
            IF ObjectIdThrows(r.id) \/ ~dbOk
              THEN Respond(Log(r, <<"handler">>), 500)
            ELSE IF i = 0
              THEN Respond(Log(r, <<"handler", "findOne">>), 404)
            ELSE Respond([Log(r, <<"handler", "findOne">>)
                            EXCEPT !.list = <<blogs[i]._id>>], 200)]
     /\ UNCHANGED <<users, applications, nextId, creator, submitted, rest>>

\* app.get("/blogs/latest")
GetBlogsLatest(s) ==
  LET r == reqs[s]
  IN /\ r.route = "GET /blogs/latest"
     /\ r.pc = "handler"
     /\ \E dbOk \in BOOLEAN :
          reqs' = [reqs EXCEPT ![s] =
            IF ~dbOk THEN Respond(Log(r, <<"handler">>), 500)
            ELSE Respond([Log(r, <<"handler", "find">>) EXCEPT
                            !.list = Limit(SortedByDate(1 .. Len(blogs)), 4)], 200)]
     /\ UNCHANGED <<users, applications, nextId, creator, submitted, rest>>

\* error.message of the exception a dependency raises: the text is the
\* dependency's, two of its possible values
ErrorTexts == {"No such customer: cus_123", "connect ETIMEDOUT 10.0.0.7:443"}

\* app.post("/create-payment-intent", verifyToken)
IndexCreatePaymentIntent(s) ==
  LET r == reqs[s]
  IN /\ r.route = "index.js POST /create-payment-intent"
     /\ r.pc = "handler"
     /\ \E gatewayOk \in BOOLEAN, message \in ErrorTexts :
          reqs' = [reqs EXCEPT ![s] =
            IF r.amount <= 0
              THEN RespondWith(Log(r, <<"handler">>), 400, "Invalid amount")
            ELSE IF gatewayOk
              THEN RespondWith(Log(r, <<"handler", "create">>), 200, "clientSecret")
            ELSE RespondWith(Log(r, <<"handler", "throw">>), 500, message)]
     /\ UNCHANGED <<users, applications, nextId, creator, submitted, rest>>

\* app.post("/payments", verifyToken), up to paymentsCollection.insertOne
IndexPaymentsInsert(s) ==
  LET r == reqs[s]
      paymentDoc == [applicationId |-> r.id, email |-> r.email, paid_at |-> "date"]
  IN /\ r.route = "index.js POST /payments"
     /\ r.pc = "handler"
     /\ \E dbOk \in BOOLEAN :
          IF ObjectIdThrows(r.id) \/ ~dbOk
            THEN /\ reqs' = [reqs EXCEPT ![s] =
                      RespondWith(Log(r, <<"handler">>), 500, "Failed to record payment")]
                 /\ UNCHANGED payments
            ELSE /\ payments' = Append(payments, paymentDoc)
                 /\ reqs' = [reqs EXCEPT ![s] =
                      [Log(r, <<"handler", "insertOne">>) EXCEPT !.pc = "handler2"]]
     /\ UNCHANGED <<users, applications, nextId, creator, submitted, agents,
                    newsletterSubscribers, expired, blogs>>

\* ... and from the applicationsCollection.updateOne on
IndexPaymentsUpdate(s) ==
  LET r == reqs[s]
      i == IdxById(applications, r.id)
      modifiedCount == IF i # 0 /\ applications[i].status # "paid" THEN 1 ELSE 0
  IN /\ r.route = "index.js POST /payments"
     /\ r.pc = "handler2"
     /\ \E dbOk \in BOOLEAN :
          IF ~dbOk
            THEN /\ reqs' = [reqs EXCEPT ![s] =
                      RespondWith(r, 500, "Failed to record payment")]
                 /\ UNCHANGED applications
            ELSE /\ applications' =
                      IF i = 0 THEN applications
                      ELSE [applications EXCEPT ![i].status = "paid"]
                 /\ reqs' = [reqs EXCEPT ![s] =
                      Respond(Log(r, <<"updateOne">>),
                              IF modifiedCount = 0 THEN 404 ELSE 201)]
     /\ UNCHANGED <<users, nextId, creator, submitted, rest>>

(***************************************************************************)
(* Specifications                                                          *)
(***************************************************************************)
\* the full server, one request at a time
Next ==
  \/ \E s \in DOMAIN reqs : Receive(s, FullRoutes)
  \/ \E s \in DOMAIN reqs : Close(s)
  \/ \E s \in DOMAIN reqs : VerifyJWT(s)
  \/ \E s \in DOMAIN reqs : VerifyToken(s)
  \/ \E s \in DOMAIN reqs : VerifyAdmin(s)
  \/ \E s \in DOMAIN reqs : VerifyAgent(s)
  \/ \E s \in DOMAIN reqs : PostUsers(s)
  \/ \E s \in DOMAIN reqs : GetAll(s)
  \/ \E s \in DOMAIN reqs : PatchAssign(s)
  \/ \E s \in DOMAIN reqs : PatchReject(s)
  \/ \E s \in DOMAIN reqs : PostApplications(s)
  \/ \E s \in DOMAIN reqs : PatchStatusFind(s)
  \/ \E s \in DOMAIN reqs : PatchStatusUpdate(s)
  \/ \E s \in DOMAIN reqs : GetApplications(s)
  \/ \E s \in DOMAIN reqs : GetApplicationsAll(s)
  \/ \E s \in DOMAIN reqs : GetApplicationById(s)
  \/ \E s \in DOMAIN reqs : DeleteApplicationFind(s)
  \/ \E s \in DOMAIN reqs : DeleteApplicationDelete(s)

Spec == Init /\ [][Next]_vars

\* the server of src/index.js, one request at a time
NextIndex ==
  \/ \E s \in DOMAIN reqs : Receive(s, IndexRoutes)
  \/ \E s \in DOMAIN reqs : Close(s)
  \/ \E s \in DOMAIN reqs : VerifyToken(s)
  \/ \E s \in DOMAIN reqs : IndexPostApplications(s)
  \/ \E s \in DOMAIN reqs : IndexGetApplicationById(s)
  \/ \E s \in DOMAIN reqs : IndexDeleteApplication(s)
  \/ \E s \in DOMAIN reqs : IndexCreatePaymentIntent(s)
  \/ \E s \in DOMAIN reqs : IndexPaymentsInsert(s)
  \/ \E s \in DOMAIN reqs : IndexPaymentsUpdate(s)

SpecIndex == Init /\ [][NextIndex]_vars

\* app.post("/users") of the first server: the body is inserted as it is
OldPostUsers(s) ==
  LET r == reqs[s]
      body == [email |-> r.email, name |-> r.name, role |-> r.role]
  IN /\ r.route = "part_001 POST /users"
     /\ r.pc = "handler"
     /\ \E dbOk \in BOOLEAN :
          IF ~dbOk
            THEN /\ reqs' = [reqs EXCEPT ![s] = Respond(Log(r, <<"handler">>), 500)]
                 /\ UNCHANGED users
            ELSE /\ users' = Append(users, body)
                 /\ reqs' = [reqs EXCEPT ![s] =
                      Respond(Log(r, <<"handler", "insertOne">>), 200)]
     /\ UNCHANGED <<applications, nextId, creator, submitted, rest>>

\* the profile routes of the full server, one request at a time
NextUsers ==
  \/ \E s \in DOMAIN reqs : ReceiveProfile(s)
  \/ \E s \in DOMAIN reqs : Close(s)
  \/ \E s \in DOMAIN reqs : VerifyToken(s)
  \/ \E s \in DOMAIN reqs : PostUsers(s)
  \/ \E s \in DOMAIN reqs : PatchUsers(s)
  \/ \E s \in DOMAIN reqs : MakeAdmin(s)

SpecUsers == Init /\ [][NextUsers]_vars

\* the first server (src/unnamed/part_001), one request at a time
NextOld ==
  \/ \E s \in DOMAIN reqs : Receive(s, OldRoutes)
  \/ \E s \in DOMAIN reqs : Close(s)
  \/ \E s \in DOMAIN reqs : OldPostUsers(s)

SpecOld == Init /\ [][NextOld]_vars

\* requests of the full server, one at a time, while tokens expire and
\* profiles change
NextSession ==
  \/ \E s \in DOMAIN reqs : Receive(s, SessionRoutes)
  \/ \E s \in DOMAIN reqs : Close(s)
  \/ Expire
  \/ \E s \in DOMAIN reqs : VerifyJWT(s)
  \/ \E s \in DOMAIN reqs : VerifyToken(s)
  \/ \E s \in DOMAIN reqs : VerifyAdmin(s)
  \/ \E s \in DOMAIN reqs : PostUsers(s)
  \/ \E s \in DOMAIN reqs : PostApplications(s)
  \/ \E s \in DOMAIN reqs : GetApplicationsAll(s)
  \/ \E s \in DOMAIN reqs : GetAll(s)

SpecSession == Init /\ [][NextSession]_vars

\* the blog routes of the full server behind the router, with the profile
\* upsert that makes agents, one request at a time.  GetBlogsLatest is not
\* among the steps: Dispatch yields its route for no path.
NextBlogs ==
  \/ \E s \in DOMAIN reqs : Receive(s, {"POST /users"})
  \/ \E s \in DOMAIN reqs : ReceivePath(s)
  \/ \E s \in DOMAIN reqs : Close(s)
  \/ \E s \in DOMAIN reqs : VerifyToken(s)
  \/ \E s \in DOMAIN reqs : VerifyAgent(s)
  \/ \E s \in DOMAIN reqs : PostUsers(s)
  \/ \E s \in DOMAIN reqs : PostBlogs(s)
  \/ \E s \in DOMAIN reqs : GetBlogsUser(s)
  \/ \E s \in DOMAIN reqs : GetBlogsFind(s)
  \/ \E s \in DOMAIN reqs : GetBlogById(s)

SpecBlogs == Init /\ [][NextBlogs]_vars

\* two connections racing on application 1
NextRace ==
  \/ \E s \in DOMAIN reqs : ReceiveRace(s, RaceRoutes)
  \/ \E s \in DOMAIN reqs : Close(s)
  \/ \E s \in DOMAIN reqs : VerifyToken(s)
  \/ \E s \in DOMAIN reqs : VerifyAgent(s)
  \/ \E s \in DOMAIN reqs : PatchStatusFind(s)
  \/ \E s \in DOMAIN reqs : PatchStatusUpdate(s)
  \/ \E s \in DOMAIN reqs : AssignFind(s)
  \/ \E s \in DOMAIN reqs : AssignUpdate(s)
  \/ \E s \in DOMAIN reqs : DeleteApplicationFind(s)
  \/ \E s \in DOMAIN reqs : DeleteApplicationDelete(s)

SpecRace == InitAssigned /\ [][NextRace]_vars

\* two connections sending agent requests and subscriptions
NextSignupRace ==
  \/ \E s \in DOMAIN reqs : ReceiveRace(s, {"POST /agents", "POST /subscribe"})
  \/ \E s \in DOMAIN reqs : Close(s)
  \/ \E s \in DOMAIN reqs : VerifyToken(s)
  \/ \E s \in DOMAIN reqs : PostAgentsFind(s)
  \/ \E s \in DOMAIN reqs : PostAgentsInsert(s)
  \/ \E s \in DOMAIN reqs : SubscribeFind(s)
  \/ \E s \in DOMAIN reqs : SubscribeInsert(s)

SpecSignupRace == InitTwo /\ [][NextSignupRace]_vars

\* the agent-request and newsletter routes of the full server, one request
\* at a time
NextSignup ==
  \/ \E s \in DOMAIN reqs : Receive(s, SignupRoutes)
  \/ \E s \in DOMAIN reqs : Close(s)
  \/ \E s \in DOMAIN reqs : VerifyToken(s)
  \/ \E s \in DOMAIN reqs : PostAgentsFind(s)
  \/ \E s \in DOMAIN reqs : PostAgentsInsert(s)
  \/ \E s \in DOMAIN reqs : PatchAgentStatus(s)
  \/ \E s \in DOMAIN reqs : SubscribeFind(s)
  \/ \E s \in DOMAIN reqs : SubscribeInsert(s)

SpecSignup == Init /\ [][NextSignup]_vars

(***************************************************************************)
(* Properties                                                              *)
(***************************************************************************)
\* the request has passed the stage ev (its trace holds the event)
Has(r, ev) == \E i \in 1 .. Len(r.trace) : r.trace[i] = ev

\* the route's chain starts with a token-verification middleware
TokenGuarded(route) ==
  Len(Guards(route)) >= 1 /\ Guards(route)[1] \in {"verifyToken", "verifyJWT"}

Declares(route, g) == \E i \in 1 .. Len(Guards(route)) : Guards(route)[i] = g

RoleGated(route) == Declares(route, "verifyAdmin") \/ Declares(route, "verifyAgent")

RequiredRole(route) == IF Declares(route, "verifyAdmin") THEN "admin" ELSE "agent"

\* a header of the form Bearer <token>
WellFormedBearer(h) ==
  Len(h) = 3 /\ h[1] = "Bearer" /\ h[2] = SP /\ h[3] \notin {SP, "Bearer", "Basic"}

\* the role the users collection holds for an email, "missing" without a record
StoredRole(coll, email) ==
  IF \A i \in 1 .. Len(coll) : coll[i].email # email THEN "missing"
  ELSE coll[CHOOSE i \in 1 .. Len(coll) :
              /\ coll[i].email = email
              /\ \A j \in 1 .. i - 1 : coll[j].email # email].role

\* C1: on every route guarded by verifyToken or verifyJWT, a request without
\* an Authorization header never reaches the identity verifier or the
\* handler body, and once its middleware has run it is answered 401.
NoHeaderIsUnauthenticated ==
  \A s \in DOMAIN reqs :
    LET r == reqs[s] IN
    (TokenGuarded(r.route) /\ r.hdr = NoHeader) =>
      /\ ~Has(r, "verify")
      /\ ~Has(r, "handler")
      /\ r.pc \in {Guards(r.route)[1], "done"}
      /\ r.pc = "done" => r.resp = 401

\* a request without header on a verifyToken route, answered 401
NoHeaderWitness ==
  \E s \in DOMAIN reqs :
    /\ reqs[s].route = "PATCH /applications/reject/:id"
    /\ reqs[s].hdr = NoHeader
    /\ reqs[s].pc = "done"
    /\ reqs[s].resp = 401

\* C2: on every route guarded by verifyToken or verifyJWT, a request whose
\* bearer token the identity verifier rejects is answered 401.
RejectedTokenIs401 ==
  \A s \in DOMAIN reqs :
    LET r == reqs[s] IN
    (/\ TokenGuarded(r.route)
     /\ WellFormedBearer(r.hdr)
     /\ ~VerifyIdToken(<<r.hdr[3]>>).ok
     /\ r.pc = "done") => r.resp = 401

\* C3: on every route guarded by verifyToken or verifyJWT, a request whose
\* header is present but not of the form Bearer <token> ends with 401 in the
\* credential extraction: the verifier is not called, no later stage runs.
MalformedHeaderStopsAtExtraction ==
  \A s \in DOMAIN reqs :
    LET r == reqs[s] IN
    (/\ TokenGuarded(r.route)
     /\ r.hdr # NoHeader
     /\ ~WellFormedBearer(r.hdr)
     /\ r.trace # <<>>) =>
      /\ r.pc = "done"
      /\ r.resp = 401
      /\ r.trace = <<"extract">>

\* C4: on a role-gated route, a request with a valid token whose principal's
\* stored role (read without a storage error) is not the route's required
\* role is answered 403 and its handler body does not run: the gate tests
\* equality, so admin fails the agent gate and agent the admin gate.
RoleGateIsEquality ==
  \A s \in DOMAIN reqs :
    LET r == reqs[s] IN
    (/\ RoleGated(r.route)
     /\ r.user.ok
     /\ Has(r, "resolve")
     /\ r.lookup # "error"
     /\ StoredRole(r.pre.users, r.user.email) # RequiredRole(r.route)) =>
      /\ r.pc = "done"
      /\ r.resp = 403
      /\ ~Has(r, "handler")

\* a principal stored as admin answered 403 by the agent gate
AdminFailsAgentGate ==
  \E s \in DOMAIN reqs :
    /\ reqs[s].route = "PATCH /applications/:id/status"
    /\ reqs[s].user.ok
    /\ StoredRole(reqs[s].pre.users, reqs[s].user.email) = "admin"
    /\ reqs[s].pc = "done"
    /\ reqs[s].resp = 403

\* position of a pipeline stage; the store calls of a handler come last
Rank(ev) ==
  CASE ev = "extract" -> 1
    [] ev = "verify" -> 2
    [] ev = "resolve" -> 3
    [] ev = "compare" -> 4
    [] ev = "handler" -> 5
    [] OTHER -> 6

\* the request has passed guard g
Passed(r, g) ==
  CASE g \in {"verifyToken", "verifyJWT"} -> Has(r, "verify") /\ r.user.ok
    [] g = "verifyAdmin" -> Has(r, "compare") /\ r.lookup = "admin"
    [] g = "verifyAgent" -> Has(r, "compare") /\ r.lookup = "agent"
    [] OTHER -> FALSE

\* C5: the stages of a request run in the order extraction, verification,
\* role resolution, role comparison, handler; the role store is read only
\* after the token was verified, and a handler body starts only after every
\* guard its route declares has passed for this request.
StagesInOrder ==
  \A s \in DOMAIN reqs :
    LET r == reqs[s] IN
    /\ \A i, j \in 1 .. Len(r.trace) :
         i < j => \/ Rank(r.trace[i]) < Rank(r.trace[j])
                  \/ Rank(r.trace[i]) = 6 /\ Rank(r.trace[j]) = 6
    /\ Has(r, "resolve") => Has(r, "verify") /\ r.user.ok
    /\ (Has(r, "handler") \/ r.pc \in {"handler", "handler2"}) =>
         \A i \in 1 .. Len(Guards(r.route)) : Passed(r, Guards(r.route)[i])

\* a request that went through all five stages of an admin-gated route
AllStagesWitness ==
  \E s \in DOMAIN reqs :
    /\ reqs[s].route = "PATCH /applications/reject/:id"
    /\ reqs[s].resp = 200
    /\ reqs[s].trace =
         <<"extract", "verify", "resolve", "compare", "handler", "updateOne">>

\* C6: a request that has not reached its handler body, so also one the
\* pipeline has ended with 401, 403 or 500, has left the collections as they
\* were when it arrived.
PipelineWritesNothing ==
  \A s \in DOMAIN reqs :
    LET r == reqs[s] IN
    (r.pc # "idle" /\ ~Has(r, "handler")) =>
      /\ users = r.pre.users
      /\ applications = r.pre.applications

\* an agent's token on the admin-gated reject route, answered 403, with an
\* application in the store
AgentRejectedWitness ==
  \E s \in DOMAIN reqs :
    /\ reqs[s].route = "PATCH /applications/reject/:id"
    /\ reqs[s].lookup = "agent"
    /\ reqs[s].pc = "done"
    /\ reqs[s].resp = 403
    /\ IdxById(applications, reqs[s].id) # 0

\* the principal of r is in no sense an admin
NotAdmin(r) ==
  r.user.role # "admin" /\ StoredRole(r.pre.users, r.user.email) # "admin"

\* C7: in the full server, DELETE /applications/:id with a valid token of a
\* principal that is neither the creator of the application nor an admin
\* issues no deleteOne, leaves the application in place and is answered 403
\* (500 only when the findOne itself failed); no deleteOne of any request
\* comes before its ownership test.
StrangerCannotDelete ==
  \A s \in DOMAIN reqs :
    LET r == reqs[s]
        app == FindById(r.pre.applications, r.id)
    IN /\ \A i \in 1 .. Len(r.trace) :
            r.trace[i] = "deleteOne" =>
              \E j \in 1 .. i - 1 : r.trace[j] = "ownership"
       /\ (/\ r.route = "DELETE /applications/:id"
           /\ r.user.ok
           /\ app # NoApp
           /\ app.userEmail # r.user.email
           /\ NotAdmin(r)) =>
            /\ ~Has(r, "deleteOne")
            /\ r.pc # "handler2"
            /\ FindById(applications, r.id) = app
            /\ r.pc = "done" => r.resp \in {403, 500}
            /\ (r.pc = "done" /\ Has(r, "findOne")) =>
                 r.resp = 403 /\ Has(r, "ownership")

\* bob, stored with role user, answered 403 on deleting jane's application
StrangerDeleteWitness ==
  \E s \in DOMAIN reqs :
    /\ reqs[s].route = "DELETE /applications/:id"
    /\ reqs[s].user.email = "bob"
    /\ StoredRole(users, "bob") = "user"
    /\ reqs[s].pc = "done"
    /\ reqs[s].resp = 403
    /\ FindById(applications, reqs[s].id).userEmail = "jane"

\* C8: in the src/index.js server, DELETE /applications/:id with a valid
\* token of a principal that did not create the application does not
\* succeed (403, or 500 on a storage error) and the application stays.
IndexStrangerCannotDelete ==
  \A s \in DOMAIN reqs :
    LET r == reqs[s]
        app == FindById(r.pre.applications, r.id)
    IN (/\ r.route = "index.js DELETE /applications/:id"
        /\ r.user.ok
        /\ app # NoApp
        /\ creator[app._id] # r.user.email
        /\ r.pc = "done") =>
         /\ r.resp \in {403, 500}
         /\ FindById(applications, r.id) = app

\* C9: a principal whose UserRecord.role is admin is not answered 403 when it
\* fetches or deletes applications of another principal.
AdminMayActOnOthers ==
  \A s \in DOMAIN reqs :
    LET r == reqs[s] IN
    (/\ r.route \in {"GET /applications/:id", "GET /applications",
                     "DELETE /applications/:id"}
     /\ r.user.ok
     /\ StoredRole(r.pre.users, r.user.email) = "admin"
     /\ r.pc = "done") => r.resp # 403

\* C10: a role-gated request never changes the users collection, and when
\* the verified principal has no UserRecord and the lookup itself succeeded
\* the gate answers 403 (not 500) without running the handler body.
MissingRecordIsRoleUser ==
  \A s \in DOMAIN reqs :
    LET r == reqs[s] IN
    (RoleGated(r.route) /\ r.pc # "idle") =>
      /\ users = r.pre.users
      /\ (/\ r.user.ok
          /\ StoredRole(r.pre.users, r.user.email) = "missing"
          /\ Has(r, "resolve")
          /\ r.lookup # "error") =>
           /\ r.pc = "done"
           /\ r.resp = 403
           /\ ~Has(r, "handler")

\* a verified principal without UserRecord answered 403 by the admin gate
MissingRecordWitness ==
  \E s \in DOMAIN reqs :
    /\ reqs[s].route = "GET /applications/all"
    /\ reqs[s].user.ok
    /\ StoredRole(users, reqs[s].user.email) = "missing"
    /\ reqs[s].lookup = "missing"
    /\ reqs[s].resp = 403

\* C11: on a role-gated route, a Role Store lookup that fails ends the
\* request with 500 before the handler body; a 403 of such a route comes
\* only after a lookup that succeeded and a role comparison.
StoreErrorIsUnavailable ==
  \A s \in DOMAIN reqs :
    LET r == reqs[s] IN
    RoleGated(r.route) =>
      /\ r.lookup = "error" =>
           r.pc = "done" /\ r.resp = 500 /\ ~Has(r, "handler")
      /\ (r.pc = "done" /\ r.resp = 403) =>
           Has(r, "compare") /\ r.lookup \notin {"error", "none"}

\* a verified principal's request ended with 500 by the failing lookup
StoreErrorWitness ==
  \E s \in DOMAIN reqs :
    /\ reqs[s].route = "PATCH /applications/:id/status"
    /\ reqs[s].user.ok
    /\ Has(reqs[s], "resolve")
    /\ reqs[s].lookup = "error"
    /\ reqs[s].resp = 500

\* C12: the chain of a request never ends without a response, also when a
\* store call or an identifier coercion in the handler throws.
EveryRequestAnswered ==
  \A s \in DOMAIN reqs : reqs[s].pc # "unhandled"

\* the route has a document identifier in its path
TakesId(route) ==
  route \in {"PATCH /assign/:id", "PATCH /applications/reject/:id",
             "PATCH /applications/:id/status", "GET /applications/:id",
             "DELETE /applications/:id", "index.js GET /applications/:id",
             "index.js DELETE /applications/:id"}

\* C13: a handler given a path identifier that is no ObjectId answers 404
\* and modifies no document.
BadIdIsNotFound ==
  \A s \in DOMAIN reqs :
    LET r == reqs[s] IN
    (/\ TakesId(r.route)
     /\ ObjectIdThrows(r.id)
     /\ Has(r, "handler")
     /\ r.pc = "done") =>
      /\ r.resp = 404
      /\ applications = r.pre.applications

\* C14: a POST /agents for an email that has an agent request, and a POST
\* /subscribe for an email that is subscribed, is answered 409 once its
\* findOne has returned, and leaves its collection as it was.
DuplicateIsConflict ==
  \A s \in DOMAIN reqs :
    LET r == reqs[s] IN
    /\ (/\ r.route = "POST /agents"
        /\ r.name # Undefined
        /\ IdxByEmail(r.pre.agents, r.email) # 0
        /\ Has(r, "findOne")) =>
         r.pc = "done" /\ r.resp = 409 /\ agents = r.pre.agents
    /\ (/\ r.route = "POST /subscribe"
        /\ r.name # Undefined
        /\ IdxByEmail(r.pre.newsletterSubscribers, r.email) # 0
        /\ Has(r, "findOne")) =>
         /\ r.pc = "done"
         /\ r.resp = 409
         /\ newsletterSubscribers = r.pre.newsletterSubscribers

\* a second agent request for the same email answered 409
DuplicateAgentWitness ==
  \E s \in DOMAIN reqs :
    /\ reqs[s].route = "POST /agents"
    /\ reqs[s].resp = 409
    /\ Len(agents) = 1
    /\ agents[1].email = reqs[s].email

\* the record an update route aims at was in its collection on arrival
TargetPresent(r) ==
  CASE r.route \in {"PATCH /users/:email", "PUT /make-admin"} ->
         IdxByEmail(r.pre.users, r.email) # 0
    [] r.route = "PATCH /agents/:id/status" ->
         IdxById(r.pre.agents, r.id) # 0
    [] r.route = "PATCH /applications/:id/status" ->
         FindById(r.pre.applications, r.id).assignedAgent = r.user.email
    [] OTHER -> FALSE

\* C15: an update handler answers 404 only when its target record is
\* absent, so not when the written values equal the stored ones.
NotFoundOnlyWhenAbsent ==
  \A s \in DOMAIN reqs :
    LET r == reqs[s] IN
    (/\ r.route \in {"PATCH /users/:email", "PUT /make-admin",
                      "PATCH /agents/:id/status",
                      "PATCH /applications/:id/status"}
     /\ r.pc = "done"
     /\ r.resp = 404) => ~TargetPresent(r)

\* C16: the users collection holds at most one UserRecord per email, and
\* after an answered POST /users the one of that email has the body's
\* fields.
UpsertIsIdempotent ==
  /\ \A i, j \in 1 .. Len(users) : users[i].email = users[j].email => i = j
  /\ \A s \in DOMAIN reqs :
       LET r == reqs[s] IN
       (/\ r.route \in {"POST /users", "part_001 POST /users"}
        /\ r.pc = "done"
        /\ r.resp = 200) =>
         \E i \in 1 .. Len(users) :
           /\ users[i].email = r.email
           /\ users[i].name = r.name
           /\ r.role # Undefined => users[i].role = r.role

\* C17: a GET /applications/:id answered 200 for the id a POST /applications
\* returned, sent by the principal that created the application, returns the
\* fields of the submitted body, the status pending and a timestamp.
RoundTripKeepsBody ==
  \A s \in DOMAIN reqs :
    LET r == reqs[s] IN
    (/\ r.route \in {"GET /applications/:id", "index.js GET /applications/:id"}
     /\ r.pc = "done"
     /\ r.resp = 200
     /\ r.id \in 1 .. Len(submitted)
     /\ creator[r.id] = r.user.email) =>
      /\ r.found._id = r.id
      /\ submitted[r.id].email # Undefined =>
           r.found.email = submitted[r.id].email
      /\ r.found.status = "pending"
      /\ r.found.applicationDate # Undefined

\* C18: the role of every UserRecord is one of user, agent, admin.
RoleIsEnumerated ==
  \A i \in 1 .. Len(users) : users[i].role \in {"user", "agent", "admin"}

\* C19: a profile upsert without role creates the UserRecord with role
\* user and leaves the role of an existing one as it is, and no request
\* removes a UserRecord.
UpsertKeepsRole ==
  \A s \in DOMAIN reqs :
    LET r == reqs[s] IN
    /\ r.pc # "idle" => Len(users) >= Len(r.pre.users)
    /\ (/\ r.route = "POST /users"
        /\ r.role = Undefined
        /\ r.pc = "done"
        /\ r.resp = 200) =>
         StoredRole(users, r.email) =
           IF StoredRole(r.pre.users, r.email) = "missing" THEN "user"
           ELSE StoredRole(r.pre.users, r.email)

\* the token middleware at the head of a request's chain lets the header of
\* the request through, given what the identity provider answers now
Accepted(r) ==
  /\ r.pc = "verifyToken" => StartsWithBearer(r.hdr)
  /\ r.pc = "verifyJWT" => HeaderPresent(r.hdr)
  /\ SecondPiece(r.hdr) \notin expired
  /\ VerifyIdToken(SecondPiece(r.hdr)).ok

\* C20: the step of a token middleware is decided by the request's header
\* and the identity provider's answer at that step, and the step of a role
\* gate whose lookup succeeds by the Role Store content at that step,
\* whatever requests came before: a token rejected now is rejected, and the
\* stored role of now passes or fails the gate.
PipelineIsStateless ==
  [][\A s \in DOMAIN reqs :
       LET r == reqs[s]
           q == reqs'[s]
       IN /\ (r.pc \in {"verifyToken", "verifyJWT"} /\ q.pc # r.pc) =>
               /\ Accepted(r) => q.pc # "done" /\ q.user.ok
               /\ ~Accepted(r) => q.pc = "done" /\ q.resp \in {401, 403}
          /\ (r.pc = "verifyAdmin" /\ q.pc # r.pc /\ q.lookup # "error") =>
               IF StoredRole(users, r.user.email) = "admin"
                 THEN q.pc = "handler"
                 ELSE q.pc = "done" /\ q.resp = 403
     ]_vars

\* jane, who created an application with her token, is answered 401 once the
\* token has expired
ExpiredTokenWitness ==
  \E s \in DOMAIN reqs :
    /\ reqs[s].hdr = <<"Bearer", SP, "tJane">>
    /\ reqs[s].route = "GET /applications/all"
    /\ creator = <<"jane">>
    /\ <<"tJane">> \in expired
    /\ reqs[s].pc = "done"
    /\ reqs[s].resp = 401

\* C21: the body of a 5xx response is never the text of the exception a
\* dependency raised, so two runs that differ only in that text send the
\* same response.
ErrorBodyIsGeneric ==
  \A s \in DOMAIN reqs :
    LET r == reqs[s] IN
    (r.pc = "done" /\ r.resp >= 500) => r.body \notin ErrorTexts

\* C26: a payment request answered with a non-2xx status has left payments
\* and applications as they were, and one answered 201 has inserted one
\* payment and set the status of the application of that id, if there is
\* one, to paid.
PaymentIsAllOrNothing ==
  \A s \in DOMAIN reqs :
    LET r == reqs[s]
        i == IdxById(applications, r.id)
    IN (r.route = "index.js POST /payments" /\ r.pc = "done") =>
         /\ r.resp \notin {200, 201} =>
              /\ payments = r.pre.payments
              /\ applications = r.pre.applications
         /\ r.resp = 201 =>
              /\ Len(payments) = Len(r.pre.payments) + 1
              /\ i # 0 => applications[i].status = "paid"

\* C23: the role of a UserRecord becomes admin or agent only by a request
\* that has passed token verification and the admin role gate.
NoEscalationWithoutGate ==
  \A s \in DOMAIN reqs :
    LET r == reqs[s] IN
    r.pc # "idle" =>
      \A e \in Emails :
        (/\ StoredRole(users, e) \in {"admin", "agent"}
         /\ StoredRole(users, e) # StoredRole(r.pre.users, e)) =>
          /\ Has(r, "verify") /\ r.user.ok
          /\ Has(r, "compare") /\ r.lookup = "admin"

\* C22: GET /blogs of a verified principal without UserRecord, whose lookup
\* returned, throws nothing and, when the blogs are read, answers 200 with
\* all blogs, latest first.
BlogsForMissingRecord ==
  \A s \in DOMAIN reqs :
    LET r == reqs[s] IN
    (/\ r.route = "GET /blogs"
     /\ r.user.ok
     /\ StoredRole(r.pre.users, r.user.email) = "missing"
     /\ Has(r, "findOne")) =>
      /\ ~Has(r, "throw")
      /\ Has(r, "find") =>
           r.resp = 200 /\ r.list = SortedByDate(1 .. Len(blogs))

\* C27: a GET /blogs/latest without credential runs the handler registered
\* for /blogs/latest and, unless the store fails, is answered 200 with at
\* most 4 blogs, latest first.
LatestHasItsOwnHandler ==
  \A s \in DOMAIN reqs :
    LET r == reqs[s] IN
    (/\ r.path = <<"GET", "blogs", "latest">>
     /\ r.hdr = NoHeader
     /\ r.pc = "done") =>
      /\ r.route = "GET /blogs/latest"
      /\ r.resp \in {200, 500}
      /\ Has(r, "find") =>
           /\ r.resp = 200
           /\ Len(r.list) <= 4
           /\ r.list = Limit(SortedByDate(1 .. Len(blogs)), 4)

\* C24: the updateOne of PATCH /applications/:id/status writes the status
\* only of an application that is assigned to the requesting agent at the
\* moment of the write.
StatusWriteOnlyByAssignee ==
  [][\A s \in DOMAIN reqs :
       LET r == reqs[s]
           i == IdxById(applications, r.id)
       IN (/\ r.route = "PATCH /applications/:id/status"
           /\ r.pc = "handler2"
           /\ Has(reqs'[s], "updateOne")
           /\ i # 0) => applications[i].assignedAgent = r.user.email
     ]_vars

\* C25: whatever the interleaving of POST /agents and of POST /subscribe
\* requests, each collection holds at most one record per email.
OneRecordPerEmail ==
  \A e \in Emails :
    /\ Cardinality({i \in 1 .. Len(agents) : agents[i].email = e}) <= 1
    /\ Cardinality({i \in 1 .. Len(newsletterSubscribers) :
                      newsletterSubscribers[i].email = e}) <= 1

====
